---- MODULE Spec2Model ----
(***************************************************************************)
(* Model of beatsfmt: license-header resolution, header injection, the     *)
(* formatter pipeline, the output dispatcher, the diff engine and the      *)
(* exit status computed by main.                                           *)
(*                                                                         *)
(* Three specifications share the module:                                  *)
(*   SpecInject  the licenseHeader stage as a function of header file and  *)
(*               document bytes, applied twice in a row;                   *)
(*   SpecWalk    the first half of processFile: target computation, the    *)
(*               ancestor walk and the construction of the stage list;     *)
(*   Spec        main, visitFile and the second half of processFile: the   *)
(*               pipeline, the change detector, the output actions and     *)
(*               diff with its temporary files.                            *)
(* A byte buffer is a sequence of one-character strings; a path is the     *)
(* sequence of its components, <<>> being the filesystem root "/".         *)
(***************************************************************************)
EXTENDS Integers, Sequences, FiniteSets, TLC

VARIABLES
    \* ---- SpecInject
    hdrContents,   \* bytes of the header file (ioutil.ReadFile)
    isrc,          \* bytes of the document
    once,          \* licenseHeader(header)(src)
    twice,         \* licenseHeader(header)(once)
    ipc,           \* "start" | "one" | "two" | "off"
    \* ---- SpecWalk
    w,             \* record of processFile's locals during resolution
    \* ---- Spec
    m,             \* record of main's state
    p,             \* record of the running processFile call
    d              \* record of the running diff call

vars == <<hdrContents, isrc, once, twice, ipc, w, m, p, d>>

LF == "\n"
CR == "\r"

(***************************************************************************)
(* Bounds                                                                  *)
(***************************************************************************)
MaxHdrLen == 2     \* longest header file, in bytes
MaxDocLen == 3     \* longest document, in bytes

Bytes == {"a", LF, CR}

RECURSIVE SeqsUpTo(_, _)
SeqsUpTo(S, n) ==
    IF n = 0 THEN {<<>>}
    ELSE LET shorter == SeqsUpTo(S, n - 1)
         IN  shorter \cup {Append(s, x) : s \in {t \in shorter : Len(t) = n - 1}, x \in S}

(***************************************************************************)
(* Byte and line helpers                                                   *)
(***************************************************************************)
Tail0(s, i) == SubSeq(s, i, Len(s))

IndexOf(s, c) ==
    IF \E i \in 1..Len(s) : s[i] = c
    THEN CHOOSE i \in 1..Len(s) : s[i] = c /\ \A j \in 1..(i - 1) : s[j] # c
    ELSE 0

\* strings.Split(string(contents), "\n")
RECURSIVE Split(_)
Split(s) ==
    LET i == IndexOf(s, LF)
    IN  IF i = 0 THEN <<s>>
        ELSE <<SubSeq(s, 1, i - 1)>> \o Split(Tail0(s, i + 1))

\* bufio.ScanLines drops one trailing carriage return of every token
dropCR(tok) ==
    IF Len(tok) > 0 /\ tok[Len(tok)] = CR THEN SubSeq(tok, 1, Len(tok) - 1) ELSE tok

\* the tokens bufio.Scanner yields for a reader over data: every newline
\* terminated line, then a final unterminated line when it is not empty
RECURSIVE ScanLines(_)
ScanLines(data) ==
    LET i == IndexOf(data, LF)
    IN  IF Len(data) = 0 THEN <<>>
        ELSE IF i = 0 THEN <<dropCR(data)>>
        ELSE <<dropCR(SubSeq(data, 1, i - 1))>> \o ScanLines(Tail0(data, i + 1))

\* licensing.ContainsHeader: the leading scanned lines equal the header lines
ContainsHeader(src, header) ==
    LET found == ScanLines(src)
    IN  /\ Len(found) >= Len(header)
        /\ SubSeq(found, 1, Len(header)) = header

\* licensing.RewriteWithHeader: the header blob goes in front, at offset 0
RewriteWithHeader(src, headerBytes) == headerBytes \o src

\* the loop of licenseHeader: every line followed by a newline
RECURSIVE HeaderBytes(_)
HeaderBytes(header) ==
    IF header = <<>> THEN <<>>
    ELSE (Head(header) \o <<LF>>) \o HeaderBytes(Tail(header))

\* the closure licenseHeader(header) applied to src
licenseHeader(header, src) ==
    IF ContainsHeader(src, header) THEN src
    ELSE RewriteWithHeader(src, HeaderBytes(header))

(***************************************************************************)
(* SpecInject                                                              *)
(***************************************************************************)
WalkOff == [pc |-> "off"]
MainOff == [pc |-> "off"]
ProcOff == [pc |-> "off"]
DiffOff == [pc |-> "off"]

InitInject ==
    /\ hdrContents \in SeqsUpTo(Bytes, MaxHdrLen)
    /\ isrc \in SeqsUpTo(Bytes, MaxDocLen)
    /\ once = <<>>
    /\ twice = <<>>
    /\ ipc = "start"
    /\ w = WalkOff /\ m = MainOff /\ p = ProcOff /\ d = DiffOff

InjectOnce ==
    /\ ipc = "start"
    /\ once' = licenseHeader(Split(hdrContents), isrc)
    /\ ipc' = "one"
    /\ UNCHANGED <<hdrContents, isrc, twice, w, m, p, d>>

InjectTwice ==
    /\ ipc = "one"
    /\ twice' = licenseHeader(Split(hdrContents), once)
    /\ ipc' = "two"
    /\ UNCHANGED <<hdrContents, isrc, once, w, m, p, d>>

NextInject == InjectOnce \/ InjectTwice

SpecInject == InitInject /\ [][NextInject]_vars

\* C1: injecting the header into the result of an injection returns that
\* result unchanged, for every header file and every document.
C1_Idempotent == ipc = "two" => twice = once

\* C1, second half: after one injection the containment check is true.
C1_ContainedAfterOne == ipc \in {"one", "two"} => ContainsHeader(once, Split(hdrContents))

\* the same for header files without a carriage return
C1_IdempotentNoCR ==
    (ipc = "two" /\ \A i \in 1..Len(hdrContents) : hdrContents[i] # CR) => twice = once

C1_WitnessNoCR ==
    /\ ipc = "two"
    /\ \A i \in 1..Len(hdrContents) : hdrContents[i] # CR
    /\ once # isrc
    /\ twice = once

(***************************************************************************)
(* SpecWalk: processFile up to the construction of the stage list          *)
(***************************************************************************)
MaxDepth == 3      \* deepest working directory and deepest GOPATH

licenseFileName == ".go_license_header"
xpackLicenseFileName == ".go_xpack_license_header"

Names == {"a", "x-pack"}
Dirs == SeqsUpTo(Names, MaxDepth)         \* absolute directories
NoPath == <<"">>                          \* the empty string as a path
Dot == <<".">>                            \* the relative path "."

\* the file arguments: a file of the working directory or of a subdirectory
FileNames == {<<"f.go">>, <<"a", "f.go">>, <<"x-pack", "f.go">>}
\* -srcdir: unset, a directory, or the name of a file
SrcDirs == {[kind |-> "unset", path |-> NoPath],
            [kind |-> "dir", path |-> <<"x-pack">>],
            [kind |-> "file", path |-> <<"a", "g.go">>]}
\* -license: unset or the path of a header file
ExplicitLicense == <<"lic.txt">>
\* $GOPATH: unset or an absolute directory
GoPaths == {[set |-> FALSE, path |-> NoPath]} \cup {[set |-> TRUE, path |-> g] : g \in Dirs}
\* os.Stat of a candidate header: a regular file, something else, or nothing
StatResults == {"regular", "dir", "missing"}

\* filepath.Dir of an absolute path; the parent of "/" is "/"
Dir(path) == IF Len(path) = 0 THEN path ELSE SubSeq(path, 1, Len(path) - 1)

\* filepath.Base; the base of "/" is "/"
Base(path) == IF Len(path) = 0 THEN "/" ELSE path[Len(path)]

\* filepath.Join
Join(dir, rel) == dir \o rel

\* filepath.Abs of a relative path, given os.Getwd
Abs(cwd, rel) == Join(cwd, rel)

\* lines 96-104: the path the formatters and the search see
Target(srcDir, filename) ==
    IF srcDir.kind = "unset" THEN filename
    ELSE IF srcDir.kind = "file" THEN srcDir.path
    ELSE Join(srcDir.path, <<Base(filename)>>)

\* line 108 and lines 124-126: the search root
Root(gopath, cwd, getwdOK) ==
    IF gopath.set THEN gopath.path
    ELSE IF getwdOK THEN cwd
    ELSE Dot

\* lines 110-122: the argument of filepath.Dir in line 130
Start(licSearchCWD, cwd, target) ==
    IF licSearchCWD THEN cwd ELSE Abs(cwd, target)

\* a loop that stops at the filesystem root only
WalkContinuesPastRoot(dir, root) == dir # <<>>

\* line 131: the loop condition
WalkContinues(dir, root) == dir # root /\ dir # <<>>

\* a switch that falls back to the default name outside x-pack
NextLicenseTypeReset(licenseType, dir) ==
    IF Base(dir) = "x-pack" THEN xpackLicenseFileName ELSE licenseFileName

\* lines 132-134: the sentinel switch
NextLicenseType(licenseType, dir) ==
    IF Base(dir) = "x-pack" THEN xpackLicenseFileName ELSE licenseType

\* a stage list that always starts with the header stage
StagesAlways(license) == <<"licenseHeader", "formatSource">>

\* lines 147-157: the stage list, given settings.license
Stages(license) ==
    IF license # NoPath THEN <<"licenseHeader", "formatSource">>
    ELSE <<"formatSource">>

InitWalk ==
    /\ \E cwd \in Dirs, gopath \in GoPaths, filename \in FileNames,
          srcDir \in SrcDirs, licSearchCWD \in BOOLEAN,
          license \in {NoPath, ExplicitLicense} :
          w = [pc |-> "begin", cwd |-> cwd, gopath |-> gopath, filename |-> filename,
               srcDir |-> srcDir, licSearchCWD |-> licSearchCWD, license |-> license,
               explicit |-> (license # NoPath),
               target |-> NoPath, root |-> NoPath, start |-> NoPath, dir |-> NoPath,
               licenseType |-> licenseFileName, checks |-> <<>>,
               formatters |-> <<>>, err |-> "none"]
    /\ hdrContents = <<>> /\ isrc = <<>> /\ once = <<>> /\ twice = <<>> /\ ipc = "off"
    /\ m = MainOff /\ p = ProcOff /\ d = DiffOff

\* lines 96-130
Resolve ==
    /\ w.pc = "begin"
    /\ \E getwdOK \in BOOLEAN :
       LET target == Target(w.srcDir, w.filename)
           start == Start(w.licSearchCWD, w.cwd, target)
       IN  IF w.license # NoPath
           THEN w' = [w EXCEPT !.pc = "formatters", !.target = target]
           ELSE IF ~getwdOK
           THEN w' = [w EXCEPT !.pc = "done", !.target = target, !.err = "abs",
                               !.root = Root(w.gopath, w.cwd, getwdOK)]
           ELSE w' = [w EXCEPT !.pc = "walk", !.target = target,
                               !.root = Root(w.gopath, w.cwd, getwdOK),
                               !.start = start, !.dir = Dir(start)]
    /\ UNCHANGED <<hdrContents, isrc, once, twice, ipc, m, p, d>>

\* lines 131-144, one iteration
WalkStep ==
    /\ w.pc = "walk"
    /\ WalkContinues(w.dir, w.root)
    /\ \E st \in StatResults :
       LET licenseType == NextLicenseType(w.licenseType, w.dir)
           license == Join(w.dir, <<licenseType>>)
           check == [dir |-> w.dir, name |-> licenseType, stat |-> st]
       IN  IF st = "regular"
           THEN w' = [w EXCEPT !.pc = "formatters", !.licenseType = licenseType,
                               !.license = license, !.checks = Append(@, check)]
           ELSE w' = [w EXCEPT !.licenseType = licenseType, !.dir = Dir(w.dir),
                               !.checks = Append(@, check)]
    /\ UNCHANGED <<hdrContents, isrc, once, twice, ipc, m, p, d>>

\* line 131, the condition is false
WalkExit ==
    /\ w.pc = "walk"
    /\ ~WalkContinues(w.dir, w.root)
    /\ w' = [w EXCEPT !.pc = "formatters"]
    /\ UNCHANGED <<hdrContents, isrc, once, twice, ipc, m, p, d>>

\* lines 147-157
BuildFormatters ==
    /\ w.pc = "formatters"
    /\ \E readOK \in BOOLEAN :
       IF w.license # NoPath /\ ~readOK
       THEN w' = [w EXCEPT !.pc = "done", !.err = "read"]
       ELSE w' = [w EXCEPT !.pc = "done", !.formatters = Stages(w.license)]
    /\ UNCHANGED <<hdrContents, isrc, once, twice, ipc, m, p, d>>

NextWalk == Resolve \/ WalkStep \/ WalkExit \/ BuildFormatters

SpecWalk == InitWalk /\ [][NextWalk]_vars

\* the scheduling is a single thread running processFile to its return
FairSpecWalk == SpecWalk /\ WF_vars(NextWalk)

(***************************************************************************)
(* Claims about header resolution                                          *)
(***************************************************************************)
IsPrefix(a, b) == Len(a) <= Len(b) /\ SubSeq(b, 1, Len(a)) = a
StrictlyBelow(x, root) == IsPrefix(root, x) /\ x # root

Walking == w.pc \in {"walk", "formatters", "done"} /\ ~w.explicit /\ w.err # "abs"

\* the search start directory: the working directory with -licwd, else the
\* directory that contains the target
SearchStartDir ==
    IF w.licSearchCWD THEN w.cwd ELSE Dir(Abs(w.cwd, Target(w.srcDir, w.filename)))

Found == \E i \in 1..Len(w.checks) : w.checks[i].stat = "regular"

\* C5: the checks before the first directory named x-pack use the default
\* file name, the checks from that directory on use the alternate name, the
\* regular file of a check is the header selected, and no default-named
\* header is selected at or above an x-pack directory of the walk.
C5_SentinelSticky ==
    Walking =>
      /\ \A i \in 1..Len(w.checks) :
            w.checks[i].name =
               IF \E j \in 1..i : Base(w.checks[j].dir) = "x-pack"
               THEN xpackLicenseFileName ELSE licenseFileName
      /\ \A i \in 1..Len(w.checks) :
            w.checks[i].stat = "regular" =>
               /\ i = Len(w.checks)
               /\ w.license = Join(w.checks[i].dir, <<w.checks[i].name>>)
      /\ (Found /\ Base(w.license) = licenseFileName) =>
            \A k \in Len(Dir(w.license))..Len(w.checks[1].dir) :
               k >= 1 => w.checks[1].dir[k] # "x-pack"

\* /a/x-pack/a/f.go: the default name is tried in /a/x-pack/a, the alternate
\* one in /a/x-pack and, that one missing, the alternate one again in /a
C5_Witness ==
    /\ w.pc = "done"
    /\ Len(w.checks) = 3
    /\ w.checks[1] = [dir |-> <<"a", "x-pack", "a">>, name |-> licenseFileName, stat |-> "missing"]
    /\ w.checks[2] = [dir |-> <<"a", "x-pack">>, name |-> xpackLicenseFileName, stat |-> "missing"]
    /\ w.checks[3] = [dir |-> <<"a">>, name |-> xpackLicenseFileName, stat |-> "regular"]
    /\ w.license = <<"a", xpackLicenseFileName>>

\* the scenario of the spec: the alternate header of /a/x-pack is selected
C5_ScenarioReached ==
    /\ w.pc = "done"
    /\ Len(w.checks) = 2
    /\ w.checks[1].dir = <<"a", "x-pack", "a">>
    /\ w.license = <<"a", "x-pack", xpackLicenseFileName>>

\* C6: the first directory the walk checks is the search start directory.
C6_FirstCheckedIsSearchStart ==
    (Walking /\ Len(w.checks) >= 1) => w.checks[1].dir = SearchStartDir

\* C6, without -licwd
C6_FirstCheckedIsTargetDir ==
    (Walking /\ Len(w.checks) >= 1 /\ ~w.licSearchCWD) => w.checks[1].dir = SearchStartDir

\* C7: the walk ends for every start and every root, and a walk that found
\* no regular header file gives no header, no error and the reformat stage
\* alone.
C7_WalkTerminates ==
    /\ <>(w.pc = "done")
    /\ []((w.pc = "done" /\ Walking /\ ~Found) =>
             /\ w.license = NoPath
             /\ w.err = "none"
             /\ w.formatters = <<"formatSource">>)

\* a walk that left the tree of a root which is no ancestor and stopped at "/"
C7_Witness ==
    /\ w.pc = "done"
    /\ Walking
    /\ ~IsPrefix(w.root, SearchStartDir)
    /\ w.dir = <<>>
    /\ Len(w.checks) >= 2
    /\ ~Found
    /\ w.formatters = <<"formatSource">>

\* C10: the walk checks neither the search root nor "/", selects no header
\* of the search root, and below the root checks only directories below it.
C10_RootNeverChecked ==
    Walking =>
      /\ \A i \in 1..Len(w.checks) : w.checks[i].dir # w.root /\ w.checks[i].dir # <<>>
      /\ Found => (Dir(w.license) # w.root /\ Dir(w.license) # <<>>)
      /\ StrictlyBelow(SearchStartDir, w.root) =>
            \A i \in 1..Len(w.checks) : StrictlyBelow(w.checks[i].dir, w.root)

\* a walk that came up to a root other than "/" and left the loop there
C10_Witness ==
    /\ w.pc = "done"
    /\ Walking
    /\ w.root # <<>>
    /\ w.dir = w.root
    /\ Len(w.checks) >= 1
    /\ ~Found

(***************************************************************************)
(* Spec: main, visitFile, processFile from line 147, diff                  *)
(***************************************************************************)
MaxPaths == 2      \* most positional arguments
MaxDirFiles == 2   \* most entries filepath.Walk yields for one directory
MaxSrcLen == 3     \* longest source file, in bytes

NilBuf == <<"nil">>                        \* a nil []byte result
SrcBytes == {"a", LF}
Sources == SeqsUpTo(SrcBytes, MaxSrcLen)
\* contents of the header file settings.license names
LicenseFiles == {<<"a">>, <<"a", LF>>}
\* what imports.Process does with its input
FmtOutcomes == {"same", "changed", "error"}
\* what one writeTmpFile call runs into
TmpOutcomes == {"ok", "createfail", "writefail"}
\* what the diff subprocess does: output with exit status 1, an error
\* message as output, or no output and an error
ExecOutcomes == {"output", "errtext", "silent"}
DiffData == <<"d">>
ErrText == <<"e">>

\* imports.Process, an external collaborator: an error, the input itself,
\* or a different text
formatSource(outcome, src) ==
    IF outcome = "error" THEN [out |-> NilBuf, err |-> "format"]
    ELSE IF outcome = "same" THEN [out |-> src, err |-> "none"]
    ELSE [out |-> Append(src, LF), err |-> "none"]

\* one formatter of the stage list applied to contents
RunStage(name, header, outcome, contents) ==
    IF name = "licenseHeader"
    THEN [out |-> licenseHeader(header, contents), err |-> "none"]
    ELSE formatSource(outcome, contents)

\* a loop that drops the error of a stage and carries on with its input
RECURSIVE applyFormattersKeepGoing(_, _, _, _)
applyFormattersKeepGoing(formatters, header, outcome, src) ==
    IF formatters = <<>> THEN [res |-> src, err |-> "none", ran |-> <<>>]
    ELSE LET r == RunStage(Head(formatters), header, outcome, src)
             rest == applyFormattersKeepGoing(Tail(formatters), header, outcome,
                                              IF r.err # "none" THEN src ELSE r.out)
         IN  [res |-> rest.res, err |-> rest.err, ran |-> <<Head(formatters)>> \o rest.ran]

\* lines 227-238; ran lists the stages that were called
RECURSIVE applyFormatters(_, _, _, _)
applyFormatters(formatters, header, outcome, src) ==
    IF formatters = <<>> THEN [res |-> src, err |-> "none", ran |-> <<>>]
    ELSE LET r == RunStage(Head(formatters), header, outcome, src)
         IN  IF r.err # "none"
             THEN [res |-> NilBuf, err |-> r.err, ran |-> <<Head(formatters)>>]
             ELSE LET rest == applyFormatters(Tail(formatters), header, outcome, r.out)
                  IN  [res |-> rest.res, err |-> rest.err,
                       ran |-> <<Head(formatters)>> \o rest.ran]

\* a comparison that never finds the buffers equal
bytesEqualNever(a, b) == FALSE

\* line 179: bytes.Equal
bytesEqual(a, b) == a = b

\* lines 181 and 207
gateStream(settings) == ~settings.list /\ ~settings.overwrite /\ ~settings.diff

\* line 189
gateList(settings) == settings.list

\* line 192
gateOverwrite(settings) == settings.overwrite

\* a diff branch that runs in diff mode only
gateDiffExclusive(settings) == settings.diff /\ ~settings.list /\ ~settings.overwrite

\* line 198
gateDiff(settings) == settings.diff

\* a writeTmpFile that keeps the file it could not write
writeTmpFileLeaky(tmp, name, outcome) ==
    IF outcome = "createfail"
    THEN [tmp |-> tmp, name |-> "", err |-> "tmp", created |-> {}]
    ELSE IF outcome = "writefail"
    THEN [tmp |-> tmp \cup {name}, name |-> "", err |-> "tmp", created |-> {name}]
    ELSE [tmp |-> tmp \cup {name}, name |-> name, err |-> "none", created |-> {name}]

\* lines 305-326: tmp is the set of temporary files that exist
writeTmpFile(tmp, name, outcome) ==
    IF outcome = "createfail"
    THEN [tmp |-> tmp, name |-> "", err |-> "tmp", created |-> {}]
    ELSE IF outcome = "writefail"
    THEN [tmp |-> tmp \ {name}, name |-> "", err |-> "tmp", created |-> {name}]
    ELSE [tmp |-> tmp \cup {name}, name |-> name, err |-> "none", created |-> {name}]

\* lines 298-302: the subprocess and the rule that output means success
runDiff(outcome) ==
    LET data == IF outcome = "output" THEN DiffData
                ELSE IF outcome = "errtext" THEN ErrText ELSE <<>>
    IN  [data |-> data, err |-> IF Len(data) > 0 THEN "none" ELSE "exec"]

NewCall(site) ==
    [pc |-> "formatters", site |-> site, license |-> NoPath, header |-> <<>>,
     formatters |-> <<>>, src |-> NilBuf, res |-> NilBuf, ran |-> <<>>,
     fmtOutcome |-> "same", compared |-> FALSE, events |-> <<>>, err |-> "none",
     writeFailed |-> FALSE, diffFailed |-> FALSE]

Init ==
    /\ \E nargs \in 0..MaxPaths, list \in BOOLEAN, overwrite \in BOOLEAN, diff \in BOOLEAN :
          m = [pc |-> IF nargs = 0 THEN "stdin" ELSE "loop",
               settings |-> [list |-> list, overwrite |-> overwrite, diff |-> diff],
               left |-> nargs, walkLeft |-> 0, exitCode |-> 0,
               failed |-> FALSE, failedSite |-> "none"]
    /\ p = ProcOff
    /\ d = DiffOff
    /\ hdrContents = <<>> /\ isrc = <<>> /\ once = <<>> /\ twice = <<>> /\ ipc = "off"
    /\ w = WalkOff

inactive == <<hdrContents, isrc, once, twice, ipc, w>>

\* lines 59-60: no positional argument
MainStdin ==
    /\ m.pc = "stdin"
    /\ p.pc = "off"
    /\ m' = [m EXCEPT !.pc = "call"]
    /\ p' = NewCall("stdin")
    /\ UNCHANGED <<d, inactive>>

\* lines 67-77: the next positional argument
MainNextPath ==
    /\ m.pc = "loop"
    /\ m.left > 0
    /\ \E st \in {"err", "dir", "file"} :
       IF st = "err"
       THEN /\ m' = [m EXCEPT !.left = @ - 1, !.exitCode = 1]
            /\ p' = p
       ELSE IF st = "dir"
       THEN /\ \E n \in 0..MaxDirFiles : m' = [m EXCEPT !.pc = "walk", !.walkLeft = n]
            /\ p' = p
       ELSE /\ m' = [m EXCEPT !.pc = "call"]
            /\ p' = NewCall("file")
    /\ UNCHANGED <<d, inactive>>

\* lines 214-225: filepath.Walk hands one entry to the function of visitFile
MainVisit ==
    /\ m.pc = "walk"
    /\ m.walkLeft > 0
    /\ \E entry \in {"go", "other", "walkerr"} :
       IF entry = "go"
       THEN /\ m' = [m EXCEPT !.pc = "call", !.walkLeft = @ - 1]
            /\ p' = NewCall("visit")
       ELSE /\ m' = [m EXCEPT !.walkLeft = @ - 1]
            /\ p' = p
    /\ UNCHANGED <<d, inactive>>

\* lines 73-75: filepath.Walk returns what the walk function returned, nil
MainWalkEnd ==
    /\ m.pc = "walk"
    /\ m.walkLeft = 0
    /\ m' = [m EXCEPT !.pc = "loop", !.left = @ - 1]
    /\ UNCHANGED <<p, d, inactive>>

\* lines 61-64, 78-81 and 219-223: processFile returned to its caller
MainReturn ==
    /\ m.pc = "call"
    /\ p.pc = "return"
    /\ LET failed == p.err # "none"
           base == [m EXCEPT !.failed = @ \/ failed,
                             !.failedSite = IF failed THEN p.site ELSE @]
       IN  IF p.site = "stdin"
           THEN m' = [base EXCEPT !.pc = "exit", !.exitCode = IF failed THEN 1 ELSE @]
           ELSE IF p.site = "file"
           THEN m' = [base EXCEPT !.pc = "loop", !.left = @ - 1,
                                  !.exitCode = IF failed THEN 1 ELSE @]
           ELSE m' = [base EXCEPT !.pc = "walk"]
    /\ p' = ProcOff
    /\ UNCHANGED <<d, inactive>>

\* lines 64 and 85: os.Exit(exitCode)
MainExit ==
    /\ \/ m.pc = "exit"
       \/ m.pc = "loop" /\ m.left = 0
    /\ m' = [m EXCEPT !.pc = "exited"]
    /\ UNCHANGED <<p, d, inactive>>

\* lines 147-157: settings.license is empty or names a header file
ProcFormatters ==
    /\ p.pc = "formatters"
    /\ \E license \in {NoPath, ExplicitLicense}, contents \in LicenseFiles, readOK \in BOOLEAN :
       IF license # NoPath /\ ~readOK
       THEN p' = [p EXCEPT !.pc = "return", !.license = license, !.err = "read"]
       ELSE p' = [p EXCEPT !.pc = "read", !.license = license,
                           !.header = IF license # NoPath THEN Split(contents) ELSE <<>>,
                           !.formatters = Stages(license)]
    /\ UNCHANGED <<m, d, inactive>>

\* lines 159-171: standard input is read as it is, a file is opened first
ProcRead ==
    /\ p.pc = "read"
    /\ \E outcome \in {"ok", "openfail", "readfail"}, src \in Sources :
       /\ outcome = "openfail" => p.site # "stdin"
       /\ IF outcome = "ok"
          THEN p' = [p EXCEPT !.pc = "apply", !.src = src]
          ELSE p' = [p EXCEPT !.pc = "return", !.err = outcome]
    /\ UNCHANGED <<m, d, inactive>>

\* lines 173-176
ProcApply ==
    /\ p.pc = "apply"
    /\ \E outcome \in FmtOutcomes :
       LET r == applyFormatters(p.formatters, p.header, outcome, p.src)
       IN  IF r.err # "none"
           THEN p' = [p EXCEPT !.pc = "return", !.err = r.err, !.ran = r.ran,
                               !.fmtOutcome = outcome]
           ELSE p' = [p EXCEPT !.pc = "compare", !.res = r.res, !.ran = r.ran,
                               !.fmtOutcome = outcome]
    /\ UNCHANGED <<m, d, inactive>>

\* lines 178-187
ProcCompare ==
    /\ p.pc = "compare"
    /\ IF bytesEqual(p.src, p.res)
       THEN IF gateStream(m.settings)
            THEN \E writeOK \in BOOLEAN :
                    p' = [p EXCEPT !.pc = "return", !.compared = TRUE,
                                   !.events = Append(@, "stream"),
                                   !.err = IF writeOK THEN "none" ELSE "out"]
            ELSE p' = [p EXCEPT !.pc = "return", !.compared = TRUE]
       ELSE p' = [p EXCEPT !.pc = "list", !.compared = TRUE]
    /\ UNCHANGED <<m, d, inactive>>

\* lines 189-191
ProcList ==
    /\ p.pc = "list"
    /\ IF gateList(m.settings)
       THEN p' = [p EXCEPT !.pc = "overwrite", !.events = Append(@, "list")]
       ELSE p' = [p EXCEPT !.pc = "overwrite"]
    /\ UNCHANGED <<m, d, inactive>>

\* lines 192-197
ProcOverwrite ==
    /\ p.pc = "overwrite"
    /\ IF gateOverwrite(m.settings)
       THEN \E writeOK \in BOOLEAN :
               IF writeOK
               THEN p' = [p EXCEPT !.pc = "diff", !.events = Append(@, "write")]
               ELSE p' = [p EXCEPT !.pc = "return", !.events = Append(@, "write"),
                                   !.err = "write", !.writeFailed = TRUE]
       ELSE p' = [p EXCEPT !.pc = "diff"]
    /\ UNCHANGED <<m, d, inactive>>

\* lines 198-199: the call of diff(src, res)
ProcDiff ==
    /\ p.pc = "diff"
    /\ IF gateDiff(m.settings)
       THEN /\ p' = [p EXCEPT !.pc = "diffwait", !.events = Append(@, "diff")]
            /\ d' = [pc |-> "old", tmp |-> {}, created |-> {}, fOld |-> "", fNew |-> "",
                     data |-> NilBuf, err |-> "none", failedAt |-> "none"]
       ELSE /\ p' = [p EXCEPT !.pc = "stream"]
            /\ d' = d
    /\ UNCHANGED <<m, inactive>>

\* lines 286-290
DiffWriteOld ==
    /\ d.pc = "old"
    /\ \E outcome \in TmpOutcomes :
       LET r == writeTmpFile(d.tmp, "old", outcome)
       IN  IF r.err # "none"
           THEN d' = [d EXCEPT !.pc = "ret", !.tmp = r.tmp, !.created = @ \cup r.created,
                               !.err = r.err, !.failedAt = "old"]
           ELSE d' = [d EXCEPT !.pc = "new", !.tmp = r.tmp, !.created = @ \cup r.created,
                               !.fOld = r.name]
    /\ UNCHANGED <<m, p, inactive>>

\* lines 292-296; on the error return the deferred os.Remove(fOld) runs
DiffWriteNew ==
    /\ d.pc = "new"
    /\ \E outcome \in TmpOutcomes :
       LET r == writeTmpFile(d.tmp, "new", outcome)
       IN  IF r.err # "none"
           THEN d' = [d EXCEPT !.pc = "ret", !.tmp = r.tmp \ {d.fOld},
                               !.created = @ \cup r.created,
                               !.err = r.err, !.failedAt = "new"]
           ELSE d' = [d EXCEPT !.pc = "run", !.tmp = r.tmp, !.created = @ \cup r.created,
                               !.fNew = r.name]
    /\ UNCHANGED <<m, p, inactive>>

\* lines 298-302; the deferred os.Remove(fNew) and os.Remove(fOld) run
DiffRun ==
    /\ d.pc = "run"
    /\ \E outcome \in ExecOutcomes :
       LET r == runDiff(outcome)
       IN  d' = [d EXCEPT !.pc = "ret", !.tmp = (@ \ {d.fNew}) \ {d.fOld},
                          !.data = IF r.err = "none" THEN r.data ELSE NilBuf,
                          !.err = r.err,
                          !.failedAt = IF r.err = "none" THEN "none" ELSE "run"]
    /\ UNCHANGED <<m, p, inactive>>

\* lines 199-205: diff returned
ProcDiffDone ==
    /\ p.pc = "diffwait"
    /\ d.pc = "ret"
    /\ IF d.err # "none"
       THEN p' = [p EXCEPT !.pc = "return", !.err = "diff", !.diffFailed = TRUE]
       ELSE p' = [p EXCEPT !.pc = "stream", !.events = Append(@, "print")]
    /\ d' = DiffOff
    /\ UNCHANGED <<m, inactive>>

\* lines 207-211
ProcStream ==
    /\ p.pc = "stream"
    /\ IF gateStream(m.settings)
       THEN p' = [p EXCEPT !.pc = "return", !.events = Append(@, "stream")]
       ELSE p' = [p EXCEPT !.pc = "return"]
    /\ UNCHANGED <<m, d, inactive>>

Next ==
    \/ MainStdin \/ MainNextPath \/ MainVisit \/ MainWalkEnd \/ MainReturn \/ MainExit
    \/ ProcFormatters \/ ProcRead \/ ProcApply \/ ProcCompare
    \/ ProcList \/ ProcOverwrite \/ ProcDiff \/ ProcDiffDone \/ ProcStream
    \/ DiffWriteOld \/ DiffWriteNew \/ DiffRun

Spec == Init /\ [][Next]_vars

(***************************************************************************)
(* Claims about main, the pipeline, the dispatcher and diff                *)
(***************************************************************************)
AllFlags == m.settings.list /\ m.settings.overwrite /\ m.settings.diff
NoFlags == ~m.settings.list /\ ~m.settings.overwrite /\ ~m.settings.diff

\* C2: when processFile returned an error for some file, whether named on
\* the command line or reached through a directory, the exit code is not 0.
C2_ExitNonzeroOnFailure ==
    m.pc = "exited" => (m.failed => m.exitCode # 0)

\* C2, for the files named on the command line and for standard input
C2_ExitNonzeroOnDirectFailure ==
    (m.pc = "exited" /\ m.failedSite \in {"file", "stdin"}) => m.exitCode # 0

\* C3: when the output equals the input nothing is listed, written or
\* diffed, whatever the flags, and the output is streamed iff no flag is set.
C3_UnchangedNoAction ==
    (p.pc # "off" /\ p.compared /\ p.res = p.src) =>
        /\ p.events = IF NoFlags THEN <<"stream">> ELSE <<>>
        /\ d.pc = "off"
        /\ p.pc = "return"

\* a file that carries the header and is formatted, with -l -w -d
C3_Witness ==
    /\ p.pc = "return"
    /\ p.compared
    /\ p.res = p.src
    /\ AllFlags
    /\ p.ran = <<"licenseHeader", "formatSource">>
    /\ p.events = <<>>
    /\ p.err = "none"

Applied == p.pc # "off" /\ p.ran # <<>>

\* C4: the stages run in the order header injection, reformat, each on the
\* output of the one before; the first error ends the chain, comes back
\* without a buffer and makes processFile return it before any output action.
C4_PipelineStopsAtFirstError ==
    Applied =>
        /\ p.formatters \in {<<"licenseHeader", "formatSource">>, <<"formatSource">>}
        /\ IsPrefix(p.ran, p.formatters)
        /\ IF p.fmtOutcome = "error"
           THEN /\ p.ran[Len(p.ran)] = "formatSource"
                /\ p.err = "format"
                /\ p.res = NilBuf
                /\ p.pc = "return"
                /\ ~p.compared
                /\ p.events = <<>>
                /\ d.pc = "off"
           ELSE /\ p.ran = p.formatters
                /\ p.res = formatSource(p.fmtOutcome,
                              IF Head(p.formatters) = "licenseHeader"
                              THEN licenseHeader(p.header, p.src) ELSE p.src).out

\* the reformatter rejects what the header stage produced, with -l -w -d
C4_Witness ==
    /\ p.pc = "return"
    /\ p.fmtOutcome = "error"
    /\ p.ran = <<"licenseHeader", "formatSource">>
    /\ ~ContainsHeader(p.src, p.header)
    /\ p.err = "format"
    /\ AllFlags
    /\ p.events = <<>>

\* C8: when diff returns, on whichever path, no temporary file it created
\* exists, and it touches no other temporary file.
C8_TmpFilesRemoved ==
    d.pc # "off" =>
        /\ d.tmp \subseteq d.created
        /\ d.pc = "ret" => d.tmp = {}

\* the second temporary file could not be written after the first one was
C8_Witness ==
    /\ d.pc = "ret"
    /\ d.failedAt = "new"
    /\ d.created = {"old", "new"}
    /\ d.tmp = {}

\* the diff subprocess failed without output after both files were written
C8_WitnessExec ==
    /\ d.pc = "ret"
    /\ d.failedAt = "run"
    /\ d.created = {"old", "new"}

\* C9: when the output differs from the input, the list entry, the
\* overwrite and the diff are gated by their own flags and run in this
\* order, the diff only when the overwrite did not fail, its output printed
\* when the diff engine succeeded; the output is streamed iff no flag is set;
\* a failing overwrite returns its error after the list entry, before a diff.
C9_ActionsGated ==
    (p.pc = "return" /\ p.compared /\ p.res # p.src) =>
        /\ p.events =
              (IF m.settings.list THEN <<"list">> ELSE <<>>)
              \o (IF m.settings.overwrite THEN <<"write">> ELSE <<>>)
              \o (IF m.settings.diff /\ ~p.writeFailed
                  THEN <<"diff">> \o (IF p.diffFailed THEN <<>> ELSE <<"print">>)
                  ELSE <<>>)
              \o (IF NoFlags THEN <<"stream">> ELSE <<>>)
        /\ p.writeFailed => (m.settings.overwrite /\ p.err = "write")
        /\ p.diffFailed => (m.settings.diff /\ p.err = "diff")
        /\ (~p.writeFailed /\ ~p.diffFailed) => p.err = "none"

\* -l -w -d on a changed file whose overwrite fails
C9_Witness ==
    /\ p.pc = "return"
    /\ p.compared
    /\ p.res # p.src
    /\ AllFlags
    /\ p.writeFailed
    /\ p.events = <<"list", "write">>
    /\ p.err = "write"

\* -l -w -d on a changed file, every action succeeding
C9_WitnessAll ==
    /\ p.pc = "return"
    /\ p.compared
    /\ p.res # p.src
    /\ AllFlags
    /\ p.events = <<"list", "write", "diff", "print">>
====
